---- MODULE Spec2Model ----
(***************************************************************************)
(* A model of the MMTF codec engine of mmtf-rs: the byte interpreter       *)
(* (binary_decoder.rs), the primitive transforms (encoding.rs), the        *)
(* composite codecs (codec.rs), the tagged result and its conversions      *)
(* (encode.rs) and the header parser / strategy dispatcher (decode.rs).    *)
(*                                                                         *)
(* Every operation returns a record                                        *)
(*   [kind, tag, val, msg, stages]                                         *)
(* kind   "Ok", an EncodeError variant ("Header", "Codec", "Encoding",     *)
(*        "Io"), or "panic" when the Rust code unwinds (assert!, unwrap    *)
(*        on None/Err, unreachable!, index out of bounds, checked          *)
(*        arithmetic overflow in a build with overflow checks);            *)
(* tag    the StrategyDataTypes variant of a dispatcher result;            *)
(* val    the produced array;                                              *)
(* msg    the number formatted into the error message;                     *)
(* stages the stages that ran, in order.                                   *)
(***************************************************************************)
EXTENDS Integers, Sequences, FiniteSets, TLC

\* buf              the bytes the Decoder was built over
\* pos              the position of the Decoder's Cursor
\* overflow_checks  the build panics on integer overflow (debug) or wraps
\* input            the argument drawn for a call of a free function
\* last             the last call: its name, its inputs and what it returned
VARIABLES buf, pos, overflow_checks, input, last

vars == <<buf, pos, overflow_checks, input, last>>

----------------------------------------------------------------------------
(* Bounds of the explored inputs *)

\* longest payload drawn byte by byte
MaxRaw == 4
\* longest payload drawn as big-endian 32-bit words
MaxWords == 2
\* longest payload drawn as big-endian 16-bit words
MaxHalves == 2
\* longest integer array handed directly to a primitive transform
MaxArr == 3
\* longest float array handed directly to a transform
MaxFloats == 2
\* longest array wrapped in a StrategyDataTypes value built directly
MaxConv == 2

MaxWide == 2

----------------------------------------------------------------------------
(* Integer widths *)

I32Max == 2147483647
I32Min == -2147483647 - 1
I16Max == 32767
I16Min == -32768
HeaderLen == 12
\* usize::MAX = 2^64 - 1 is odd
UsizeMaxMod2 == 1

----------------------------------------------------------------------------
(* Results *)

\* the array v is kept as a tuple, which TLC indexes in constant time
Ok(v, st) ==
    [kind |-> "Ok", tag |-> "none", val |-> <<>> \o v, msg |-> 0, stages |-> <<st>>]

Err(k, m, st) == [kind |-> k, tag |-> "none", val |-> <<>>, msg |-> m, stages |-> <<st>>]

Panic(st) == Err("panic", 0, st)

NoResult == [kind |-> "none", tag |-> "none", val |-> <<>>, msg |-> 0, stages |-> <<>>]

\* Result::and_then and the ? operator: the next stage runs on Ok only, an
\* Err is handed on as it is; a panic unwinds through both.
AndThen(r, F(_)) ==
    IF r.kind = "Ok"
    THEN LET s == F(r.val) IN [s EXCEPT !.stages = r.stages \o s.stages]
    ELSE r

Tagged(r, t) == IF r.kind = "Ok" THEN [r EXCEPT !.tag = t] ELSE r

----------------------------------------------------------------------------
(* Fixed-width arithmetic *)

SignedByte(b) == IF b >= 128 THEN b - 256 ELSE b

\* read_i32::<BigEndian> on the 4 bytes after offset p
ReadI32BE(b, p) ==
    SignedByte(b[p + 1]) * 16777216 + b[p + 2] * 65536 + b[p + 3] * 256 + b[p + 4]

\* read_i16::<BigEndian> on the 2 bytes after offset p
ReadI16BE(b, p) == SignedByte(b[p + 1]) * 256 + b[p + 2]

\* write_i32::<BigEndian>
WriteI32BE(v) ==
    << (v \div 16777216) % 256, (v \div 65536) % 256, (v \div 256) % 256, v % 256 >>

\* write_i16::<BigEndian>
WriteI16BE(v) == << (v \div 256) % 256, v % 256 >>

\* a + b on i32: whether it leaves the range, and the wrapped sum
AddOverflows(a, b) ==
    \/ (b > 0 /\ a > I32Max - b)
    \/ (b < 0 /\ a < I32Min - b)

WrappingAdd(a, b) ==
    IF b > 0 /\ a > I32Max - b THEN (a + I32Min) + (b + I32Min)
    ELSE IF b < 0 /\ a < I32Min - b THEN (a - I32Min) + (b - I32Min)
    ELSE a + b

\* std::char::from_u32: a Unicode scalar value
IsScalar(c) == c >= 0 /\ c <= 1114111 /\ ~(c >= 55296 /\ c <= 57343)

IsCont(b) == b >= 128 /\ b <= 191

\* length of the UTF-8 sequence starting at index i of s, 0 if malformed
Utf8SeqLen(s, i) ==
    LET n == Len(s)
        b0 == s[i]
        c(k) == i + k <= n /\ IsCont(s[i + k])
    IN  IF b0 <= 127 THEN 1
        ELSE IF b0 >= 194 /\ b0 <= 223 THEN (IF c(1) THEN 2 ELSE 0)
        ELSE IF b0 = 224
             THEN (IF i + 2 <= n /\ s[i + 1] >= 160 /\ s[i + 1] <= 191 /\ c(2) THEN 3 ELSE 0)
        ELSE IF b0 = 237
             THEN (IF i + 2 <= n /\ s[i + 1] >= 128 /\ s[i + 1] <= 159 /\ c(2) THEN 3 ELSE 0)
        ELSE IF b0 >= 225 /\ b0 <= 239 THEN (IF c(1) /\ c(2) THEN 3 ELSE 0)
        ELSE IF b0 = 240
             THEN (IF i + 3 <= n /\ s[i + 1] >= 144 /\ s[i + 1] <= 191 /\ c(2) /\ c(3)
                   THEN 4 ELSE 0)
        ELSE IF b0 >= 241 /\ b0 <= 243 THEN (IF c(1) /\ c(2) /\ c(3) THEN 4 ELSE 0)
        ELSE IF b0 = 244
             THEN (IF i + 3 <= n /\ s[i + 1] >= 128 /\ s[i + 1] <= 143 /\ c(2) /\ c(3)
                   THEN 4 ELSE 0)
        ELSE 0

RECURSIVE Utf8ValidFrom(_, _)
Utf8ValidFrom(s, i) ==
    IF i > Len(s) THEN TRUE
    ELSE LET k == Utf8SeqLen(s, i) IN k > 0 /\ Utf8ValidFrom(s, i + k)

\* str::from_utf8(c).is_ok()
Utf8Valid(s) == Utf8ValidFrom(s, 1)

RECURSIVE TrimStart(_)
TrimStart(s) == IF s # <<>> /\ Head(s) = 0 THEN TrimStart(Tail(s)) ELSE s

RECURSIVE TrimEnd(_)
TrimEnd(s) ==
    IF s # <<>> /\ s[Len(s)] = 0 THEN TrimEnd(SubSeq(s, 1, Len(s) - 1)) ELSE s

\* str::trim_matches('\u{0}'): NUL removed at both ends
TrimMatchesNul(s) == TrimEnd(TrimStart(s))

----------------------------------------------------------------------------
(* Byte interpreter: binary_decoder.rs *)

\* Interpret<&[u8]> for Vec<i32>
Interpret_i32(values) ==
    LET length == Len(values) IN
    IF length % 4 # 0 THEN Panic("bytes_to_i32")
    ELSE Ok([i \in 1..(length \div 4) |-> ReadI32BE(values, 4 * (i - 1))], "bytes_to_i32")

\* Interpret<&[u8]> for Vec<f32>: a float is kept as its 32 bits
Interpret_f32(values) ==
    LET length == Len(values) IN
    IF length % 4 # 0 THEN Panic("bytes_to_f32")
    ELSE Ok([i \in 1..(length \div 4) |->
                [cls |-> "bits", n |-> ReadI32BE(values, 4 * (i - 1)), d |-> 1]],
            "bytes_to_f32")

\* Interpret<&[u8]> for Vec<i16>
Interpret_i16(values) ==
    LET length == Len(values) IN
    IF length % 2 # 0 THEN Panic("bytes_to_i16")
    ELSE Ok([i \in 1..(length \div 2) |-> ReadI16BE(values, 2 * (i - 1))], "bytes_to_i16")

\* Interpret<&[u8]> for Vec<i8>
Interpret_i8(values) ==
    Ok([i \in 1..Len(values) |-> SignedByte(values[i])], "bytes_to_i8")

\* the group read with the first byte most significant: read_u32::<BigEndian>
ReadCharBE(b, p) ==
    IF b[p + 1] # 0 THEN -1
    ELSE LET c == b[p + 4] + b[p + 3] * 256 + b[p + 2] * 65536
         IN  IF IsScalar(c) THEN c ELSE -1

\* read_u32::<LittleEndian> followed by from_u32: -1 when not a scalar value
ReadCharLE(b, p) ==
    IF b[p + 4] # 0 THEN -1
    ELSE LET c == b[p + 1] + b[p + 2] * 256 + b[p + 3] * 65536
         IN  IF IsScalar(c) THEN c ELSE -1

\* Interpret<&[u8]> for Vec<char>
Interpret_char(values) ==
    LET length == Len(values) IN
    IF length % 4 # 0 THEN Panic("bytes_to_char")
    ELSE LET cs == [i \in 1..(length \div 4) |-> ReadCharLE(values, 4 * (i - 1))]
         IN  IF \E i \in DOMAIN cs : cs[i] = -1 THEN Panic("bytes_to_char")
             ELSE Ok(cs, "bytes_to_char")

\* Interpret<&[i32]> for Vec<char>: `*c as u32` keeps the bits, so a negative
\* value is above 0x10FFFF
Interpret_char_from_i32(values) ==
    IF \E i \in DOMAIN values : ~IsScalar(values[i]) THEN Panic("i32_to_char")
    ELSE Ok(values, "i32_to_char")

\* Interpret<&[u8]> for Vec<String>: a string is kept as its UTF-8 bytes
Interpret_String(values) ==
    LET length == Len(values) IN
    IF length % 4 # 0 THEN Panic("bytes_to_String")
    ELSE LET chunk(i) == SubSeq(values, 4 * (i - 1) + 1, 4 * i)
         IN  IF \E i \in 1..(length \div 4) : ~Utf8Valid(chunk(i))
             THEN Panic("bytes_to_String")
             ELSE Ok([i \in 1..(length \div 4) |-> TrimMatchesNul(chunk(i))],
                     "bytes_to_String")

RECURSIVE Flatten(_)
Flatten(ss) == IF ss = <<>> THEN <<>> ELSE Head(ss) \o Flatten(Tail(ss))

\* Interpret<&[i32]> for Vec<u8>
Interpret_u8_from_i32(values) ==
    Ok(Flatten([i \in 1..Len(values) |-> WriteI32BE(values[i])]), "i32_to_bytes")

\* Interpret<&[i16]> for Vec<u8>
Interpret_u8_from_i16(values) ==
    Ok([k \in 1..(2 * Len(values)) |-> WriteI16BE(values[(k + 1) \div 2])[2 - (k % 2)]],
       "i16_to_bytes")

----------------------------------------------------------------------------
(* Primitive transforms: encoding.rs *)

\* the test read as `n % 2 == 0`, without the complement
NotUsizeMod2_plain(n) == n % 2

\* (!n) % 2 on usize: !n = usize::MAX - n
NotUsizeMod2(n) == (UsizeMaxMod2 + 2 - (n % 2)) % 2

Repeat(v, n) == [i \in 1..n |-> v]

RECURSIVE RunLength_expand(_, _)
RunLength_expand(values, i) ==
    IF i > Len(values) THEN <<>>
    ELSE Repeat(values[i], values[i + 1]) \o RunLength_expand(values, i + 2)

\* RunLength::decode: a chunk of one element makes &v[1] panic, a negative
\* count makes the cast to usize give None
RunLength_decode(values) ==
    IF NotUsizeMod2(Len(values)) = 0 THEN Err("Encoding", 0, "RunLength_decode")
    ELSE IF Len(values) % 2 = 1 \/ \E k \in 1..(Len(values) \div 2) : values[2 * k] < 0
         THEN Panic("RunLength_decode")
         ELSE Ok(RunLength_expand(values, 1), "RunLength_decode")

RECURSIVE Delta_sum(_, _, _)
\* the running sums after `position`, each add wrapped to 32 bits
Delta_sum(bytes, i, position) ==
    IF i > Len(bytes) THEN <<>>
    ELSE LET nxt == WrappingAdd(position, bytes[i])
         IN  <<nxt>> \o Delta_sum(bytes, i + 1, nxt)

RECURSIVE Delta_overflows(_, _, _)
\* some `position + value` leaves the i32 range
Delta_overflows(bytes, i, position) ==
    /\ i <= Len(bytes)
    /\ \/ AddOverflows(position, bytes[i])
       \/ Delta_overflows(bytes, i + 1, WrappingAdd(position, bytes[i]))

\* Delta::decode; oc: the build checks arithmetic overflow
Delta_decode(bytes, oc) ==
    IF Len(bytes) = 0 THEN Panic("Delta_decode")
    ELSE IF oc /\ Delta_overflows(bytes, 2, bytes[1]) THEN Panic("Delta_decode")
    ELSE Ok(<<bytes[1]>> \o Delta_sum(bytes, 2, bytes[1]), "Delta_decode")

Sign(x) == IF x > 0 THEN 1 ELSE IF x < 0 THEN -1 ELSE 0

Abs(x) == IF x < 0 THEN -x ELSE x

RECURSIVE Gcd(_, _)
Gcd(a, b) == IF b = 0 THEN a ELSE Gcd(b, a % b)

\* the float value / factor, kept as the quotient in lowest terms; a zero
\* divisor gives the IEEE-754 infinities and NaN
FloatDiv(value, f) ==
    IF f = 0
    THEN [cls |-> IF value > 0 THEN "inf" ELSE IF value < 0 THEN "-inf" ELSE "NaN",
          n |-> 0, d |-> 0]
    ELSE LET g == Gcd(Abs(value), Abs(f))
         IN  [cls |-> "fin", n |-> Sign(f) * (value \div g), d |-> Abs(f) \div g]

\* IntegerEncoding::decode
IntegerEncoding_decode(values, f) ==
    Ok([i \in 1..Len(values) |-> FloatDiv(values[i], f)], "IntegerEncoding_decode")

\* the longest run of one sentinel whose sum is itself an i32: 65536 items
MaxRun == 65536

\* the number of items equal to bytes[i] from i on, at most MaxRun
SentinelRun(bytes, i) ==
    LET later == {j \in (i + 1)..Len(bytes) : bytes[j] # bytes[i]}
        stop == IF later = {} THEN Len(bytes) + 1
                ELSE CHOOSE j \in later : \A k \in later : j <= k
    IN  IF stop - i > MaxRun THEN MaxRun ELSE stop - i

RECURSIVE RecursiveIndexing_scan(_, _, _)
\* the loop of decode from item i on; the items of a run of one sentinel are
\* all added to out_len, which is done in one step: n adds of s add n * s
RecursiveIndexing_scan(bytes, i, out_len) ==
    IF i > Len(bytes) THEN <<>>
    ELSE IF bytes[i] = I16Max \/ bytes[i] = I16Min
         THEN LET n == SentinelRun(bytes, i)
              IN  RecursiveIndexing_scan(bytes, i + n,
                                         WrappingAdd(out_len, n * bytes[i]))
         ELSE <<WrappingAdd(out_len, bytes[i])>>
              \o RecursiveIndexing_scan(bytes, i + 1, 0)

RECURSIVE RecursiveIndexing_overflows(_, _, _)
\* some `out_len += item` leaves the i32 range; within a run of one sentinel
\* the sums go one way, so one of them leaves the range iff the last does
RecursiveIndexing_overflows(bytes, i, out_len) ==
    /\ i <= Len(bytes)
    /\ IF bytes[i] = I16Max \/ bytes[i] = I16Min
       THEN LET n == SentinelRun(bytes, i)
            IN  \/ AddOverflows(out_len, n * bytes[i])
                \/ RecursiveIndexing_overflows(bytes, i + n,
                       WrappingAdd(out_len, n * bytes[i]))
       ELSE \/ AddOverflows(out_len, bytes[i])
            \/ RecursiveIndexing_overflows(bytes, i + 1, 0)

\* RecursiveIndexing::decode; oc: the build checks arithmetic overflow
RecursiveIndexing_decode(bytes, oc) ==
    IF oc /\ RecursiveIndexing_overflows(bytes, 1, 0)
    THEN Panic("RecursiveIndexing_decode")
    ELSE Ok(RecursiveIndexing_scan(bytes, 1, 0), "RecursiveIndexing_decode")

RECURSIVE RunLength_groups(_, _, _, _)
\* itertools group_by over adjacent equal keys: (key, count) pairs, flat
RunLength_groups(values, i, key, count) ==
    IF i > Len(values) THEN <<key, count>>
    ELSE IF values[i] = key THEN RunLength_groups(values, i + 1, key, count + 1)
    ELSE <<key, count>> \o RunLength_groups(values, i + 1, values[i], 1)

\* encode starting the first group one element early, counting it twice
RunLength_encode_counts_first_twice(values) ==
    IF values = <<>> THEN Ok(<<>>, "RunLength_encode")
    ELSE Ok(RunLength_groups(values, 1, values[1], 1), "RunLength_encode")

\* RunLength::encode
RunLength_encode(values) ==
    IF values = <<>> THEN Ok(<<>>, "RunLength_encode")
    ELSE Ok(RunLength_groups(values, 2, values[1], 1), "RunLength_encode")

\* a - b on i32
SubOverflows(a, b) ==
    \/ (b < 0 /\ a > I32Max + b)
    \/ (b > 0 /\ a < I32Min + b)

WrappingSub(a, b) ==
    IF b < 0 /\ a > I32Max + b THEN (a + I32Min) - (b - I32Min)
    ELSE IF b > 0 /\ a < I32Min + b THEN (a - I32Min) - (b + I32Min)
    ELSE a - b

\* Delta::encode; oc: the build checks arithmetic overflow
Delta_encode(bytes, oc) ==
    IF Len(bytes) <= 1 THEN Err("Encoding", Len(bytes), "Delta_encode")
    ELSE IF oc /\ \E i \in 2..Len(bytes) : SubOverflows(bytes[i], bytes[i - 1])
    THEN Panic("Delta_encode")
    ELSE Ok([i \in 1..Len(bytes) |->
                IF i = 1 THEN bytes[1] ELSE WrappingSub(bytes[i], bytes[i - 1])],
            "Delta_encode")

\* |x * factor| truncated toward zero is ProductHigh * |factor| + ProductLow
\* with ProductLow < |factor|; the two parts are kept apart, their sum may
\* not be an i32
ProductHigh(x) == Abs(x.n) \div x.d

ProductLow(x, f) == ((Abs(x.n) % x.d) * Abs(f)) \div x.d

\* |x * factor| truncated is at most i32::MAX
MagnitudeFits(x, f) ==
    \/ ProductHigh(x) < I32Max \div Abs(f)
    \/ /\ ProductHigh(x) = I32Max \div Abs(f)
       /\ ProductLow(x, f) <= I32Max % Abs(f)

\* x * factor truncated is i32::MIN
ProductIsI32Min(x, f) ==
    /\ Sign(x.n) * Sign(f) < 0
    /\ IF I32Max % Abs(f) = Abs(f) - 1
       THEN ProductHigh(x) = (I32Max \div Abs(f)) + 1 /\ ProductLow(x, f) = 0
       ELSE /\ ProductHigh(x) = I32Max \div Abs(f)
            /\ ProductLow(x, f) = (I32Max % Abs(f)) + 1

\* NumCast::from(x * factor) to i32 gives None for NaN and the infinities
\* (inf * 0 is NaN) and for a product whose truncation is not an i32
CastsToI32(x, f) ==
    /\ x.cls = "fin"
    /\ f = 0 \/ MagnitudeFits(x, f) \/ ProductIsI32Min(x, f)

\* the cast flooring instead: a negative product with a fraction goes down
Trunc_floor(x, f) ==
    IF f = 0 THEN 0
    ELSE IF MagnitudeFits(x, f)
         THEN IF Sign(x.n) * Sign(f) < 0
                 /\ ((Abs(x.n) % x.d) * Abs(f)) % x.d # 0
                 /\ ProductHigh(x) * Abs(f) + ProductLow(x, f) < I32Max
              THEN -(ProductHigh(x) * Abs(f) + ProductLow(x, f) + 1)
              ELSE Sign(x.n) * Sign(f) * (ProductHigh(x) * Abs(f) + ProductLow(x, f))
         ELSE I32Min

\* the cast of x * factor to i32: truncation toward zero
Trunc(x, f) ==
    IF f = 0 THEN 0
    ELSE IF MagnitudeFits(x, f)
         THEN Sign(x.n) * Sign(f) * (ProductHigh(x) * Abs(f) + ProductLow(x, f))
         ELSE I32Min

\* IntegerEncoding::encode
IntegerEncoding_encode(values, f) ==
    IF \E i \in DOMAIN values : ~CastsToI32(values[i], f)
    THEN Panic("IntegerEncoding_encode")
    ELSE Ok([i \in 1..Len(values) |-> Trunc(values[i], f)],
            "IntegerEncoding_encode")

\* split looping `while num > max`: a value equal to max is emitted bare
RecursiveIndexing_split_strict(num) ==
    IF num > 0
    THEN Repeat(I16Max, (num - 1) \div I16Max)
         \o <<num - ((num - 1) \div I16Max) * I16Max>>
    ELSE IF num = I32Min
         THEN Repeat(I16Min, MaxRun) \o <<0>>
         ELSE Repeat(I16Min, (-num) \div Abs(I16Min)) \o <<-((-num) % Abs(I16Min))>>

\* the sentinels and the remainder emitted for one value: the loop
\* `while num >= max { push(max); num -= max }` pushes num div max sentinels
\* and leaves num mod max, and `while num <= min { push(min); num += min.abs() }`
\* pushes |num| div |min| sentinels and leaves -(|num| mod |min|)
RecursiveIndexing_split(num) ==
    IF num >= 0
    THEN Repeat(I16Max, num \div I16Max) \o <<num % I16Max>>
    ELSE IF num = I32Min
         THEN Repeat(I16Min, MaxRun) \o <<0>>
         ELSE Repeat(I16Min, (-num) \div Abs(I16Min)) \o <<-((-num) % Abs(I16Min))>>

\* RecursiveIndexing::encode
RecursiveIndexing_encode(bytes) ==
    Ok(Flatten([i \in 1..Len(bytes) |-> RecursiveIndexing_split(bytes[i])]),
       "RecursiveIndexing_encode")

----------------------------------------------------------------------------
(* Composite codecs: codec.rs *)

\* the two transforms of decode in the other order: prefix sum, then expansion
DeltaRunlength_decode_delta_first(bytes, oc) ==
    AndThen(AndThen(Interpret_i32(bytes),
                    LAMBDA data : Delta_decode(data, oc)),
            LAMBDA v : RunLength_decode(v))

\* DeltaRunlength::decode
DeltaRunlength_decode(bytes, oc) ==
    AndThen(AndThen(Interpret_i32(bytes),
                    LAMBDA data : RunLength_decode(data)),
            LAMBDA v : Delta_decode(v, oc))

\* DeltaRunlength::encode
DeltaRunlength_encode(value, oc) ==
    AndThen(AndThen(Delta_encode(value, oc),
                    LAMBDA v : RunLength_encode(v)),
            LAMBDA v : Interpret_u8_from_i32(v))

\* IntegerRunLength::decode
IntegerRunLength_decode(bytes, f) ==
    AndThen(AndThen(Interpret_i32(bytes),
                    LAMBDA data : RunLength_decode(data)),
            LAMBDA v : IntegerEncoding_decode(v, f))

\* IntegerRunLength::encode
IntegerRunLength_encode(value, f) ==
    AndThen(AndThen(IntegerEncoding_encode(value, f),
                    LAMBDA v : RunLength_encode(v)),
            LAMBDA v : Interpret_u8_from_i32(v))

\* IntegerDeltaRecursive::decode
IntegerDeltaRecursive_decode(bytes, f, oc) ==
    AndThen(AndThen(AndThen(Interpret_i16(bytes),
                            LAMBDA data : RecursiveIndexing_decode(data, oc)),
                    LAMBDA v : Delta_decode(v, oc)),
            LAMBDA v : IntegerEncoding_decode(v, f))

\* IntegerDeltaRecursive::encode
IntegerDeltaRecursive_encode(value, f, oc) ==
    AndThen(AndThen(AndThen(IntegerEncoding_encode(value, f),
                            LAMBDA v : Delta_encode(v, oc)),
                    LAMBDA v : RecursiveIndexing_encode(v)),
            LAMBDA v : Interpret_u8_from_i16(v))

----------------------------------------------------------------------------
(* Tagged results and their conversions: encode.rs *)

StrategyDataTypes ==
    {"VecFloat32", "VecInt8", "VecInt16", "VecInt32", "VecString", "VecChar"}

\* impl From<StrategyDataTypes> for Vec<..>: the arm of the requested
\* variant, unreachable!() for every other
From_Vec(target, value) ==
    IF value.tag = target THEN Ok(value.val, "from") ELSE Panic("from")

\* the variants that have an impl From<StrategyDataTypes> for Option<Vec<..>>
OptionTargets == {"VecInt8", "VecChar", "VecString", "VecInt32", "VecFloat32"}

\* impl From<StrategyDataTypes> for Option<Vec<..>>: Some(From::from(value))
From_Option(target, value) == Tagged(From_Vec(target, value), "Some")

----------------------------------------------------------------------------
(* Header parser and strategy dispatcher: decode.rs *)

\* the length test off by one: `header_len < 11`
header_at_off_by_one(b, start) ==
    IF Len(b) < HeaderLen - 1
    THEN [r |-> Err("Header", Len(b), "header"), pos |-> start]
    ELSE IF start + HeaderLen > Len(b)
    THEN [r |-> Err("Io", 0, "header"), pos |-> start]
    ELSE [r |-> Ok(<<ReadI32BE(b, start), ReadI32BE(b, start + 4),
                     ReadI32BE(b, start + 8)>>, "header"),
          pos |-> start + HeaderLen]

\* Decoder::header once the cursor stands at `start`
header_at(b, start) ==
    IF Len(b) < HeaderLen
    THEN [r |-> Err("Header", Len(b), "header"), pos |-> start]
    ELSE IF start + HeaderLen > Len(b)
    THEN [r |-> Err("Io", 0, "header"), pos |-> start]
    ELSE [r |-> Ok(<<ReadI32BE(b, start), ReadI32BE(b, start + 4),
                     ReadI32BE(b, start + 8)>>, "header"),
          pos |-> start + HeaderLen]

\* header without set_position(0): reads where the cursor stands
header_keeps_position(b, p) == header_at(b, p)

\* Decoder::header: set_position(0), then the length test and the three reads
header(b, p) == header_at(b, 0)

\* Decoder::field once the cursor stands at `start`: read_to_end
field_at(b, start) ==
    IF start >= Len(b)
    THEN [r |-> Ok(<<>>, "field"), pos |-> start]
    ELSE [r |-> Ok(SubSeq(b, start + 1, Len(b)), "field"), pos |-> Len(b)]

\* field skipping one byte too many: set_position(13)
field_skips_13(b, p) == field_at(b, HeaderLen + 1)

\* Decoder::field: set_position(12), then read_to_end
field(b, p) == field_at(b, HeaderLen)

\* the arms of the match of Decoder::apply, one for each codec id
strategy_1(fld) == Tagged(Interpret_f32(fld), "VecFloat32")

strategy_2(fld) == Tagged(Interpret_i8(fld), "VecInt8")

strategy_3(fld) == Tagged(Interpret_i16(fld), "VecInt16")

strategy_4(fld) == Tagged(Interpret_i32(fld), "VecInt32")

strategy_5(fld) == Tagged(Interpret_String(fld), "VecString")

\* arm 6 without the run-length step: the words themselves become chars
strategy_6_no_expand(fld) ==
    Tagged(AndThen(Interpret_i32(fld), LAMBDA v : Interpret_char_from_i32(v)),
           "VecChar")

strategy_6(fld) ==
    Tagged(AndThen(AndThen(Interpret_i32(fld), LAMBDA data : RunLength_decode(data)),
                   LAMBDA v : Interpret_char_from_i32(v)),
           "VecChar")

strategy_7(fld) ==
    Tagged(AndThen(Interpret_i32(fld), LAMBDA data : RunLength_decode(data)),
           "VecInt32")

strategy_8(fld, oc) == Tagged(DeltaRunlength_decode(fld, oc), "VecInt32")

strategy_9(fld, parameter) ==
    Tagged(IntegerRunLength_decode(fld, parameter), "VecFloat32")

strategy_10(fld, parameter, oc) ==
    Tagged(IntegerDeltaRecursive_decode(fld, parameter, oc), "VecFloat32")

strategy_11(fld, parameter) ==
    Tagged(AndThen(Interpret_i16(fld), LAMBDA r : IntegerEncoding_decode(r, parameter)),
           "VecFloat32")

strategy_12(fld, parameter, oc) ==
    Tagged(AndThen(AndThen(Interpret_i16(fld),
                           LAMBDA data : RecursiveIndexing_decode(data, oc)),
                   LAMBDA v : IntegerEncoding_decode(v, parameter)),
           "VecFloat32")

strategy_13(fld, parameter, oc) ==
    Tagged(AndThen(AndThen(Interpret_i8(fld),
                           LAMBDA data : RecursiveIndexing_decode(data, oc)),
                   LAMBDA v : IntegerEncoding_decode(v, parameter)),
           "VecFloat32")

\* arm 14 wrapping its output in the 16-bit variant
strategy_14_as_i16(fld, oc) ==
    Tagged(AndThen(Interpret_i16(fld), LAMBDA data : RecursiveIndexing_decode(data, oc)),
           "VecInt16")

strategy_14(fld, oc) ==
    Tagged(AndThen(Interpret_i16(fld), LAMBDA data : RecursiveIndexing_decode(data, oc)),
           "VecInt32")

strategy_15(fld, oc) ==
    Tagged(AndThen(Interpret_i8(fld), LAMBDA data : RecursiveIndexing_decode(data, oc)),
           "VecInt32")

\* the `_` arm formatting no id into the error
unknown_codec_blank(codec) == Err("Codec", 0, "unknown_codec")

\* the `_` arm: EncodeError::Codec(format!("{}", header.codec))
unknown_codec(codec) == Err("Codec", codec, "unknown_codec")

\* the match of Decoder::apply
dispatch(codec, parameter, fld, oc) ==
    CASE codec = 1 -> strategy_1(fld)
      [] codec = 2 -> strategy_2(fld)
      [] codec = 3 -> strategy_3(fld)
      [] codec = 4 -> strategy_4(fld)
      [] codec = 5 -> strategy_5(fld)
      [] codec = 6 -> strategy_6(fld)
      [] codec = 7 -> strategy_7(fld)
      [] codec = 8 -> strategy_8(fld, oc)
      [] codec = 9 -> strategy_9(fld, parameter)
      [] codec = 10 -> strategy_10(fld, parameter, oc)
      [] codec = 11 -> strategy_11(fld, parameter)
      [] codec = 12 -> strategy_12(fld, parameter, oc)
      [] codec = 13 -> strategy_13(fld, parameter, oc)
      [] codec = 14 -> strategy_14(fld, oc)
      [] codec = 15 -> strategy_15(fld, oc)
      [] OTHER -> unknown_codec(codec)

\* Decoder::apply: header()?, field()?, then the match on header.codec
apply(b, p, oc) ==
    LET h == header(b, p) IN
    IF h.r.kind # "Ok" THEN h
    ELSE LET f == field(b, h.pos)
             m == dispatch(h.r.val[1], h.r.val[3], f.r.val, oc)
         IN  [r |-> [m EXCEPT !.stages = <<"header", "field">> \o m.stages],
              pos |-> f.pos]

\* as_decoder: Decoder::new(&re).apply().unwrap() on a decoder of its own,
\* then From::from into the requested array type
as_decoder(b, target, oc) ==
    LET a == apply(b, 0, oc).r IN
    CASE a.kind = "Ok" ->
            [From_Vec(target, a) EXCEPT !.stages = a.stages \o <<"from">>]
      [] a.kind = "panic" -> a
      [] OTHER -> [Panic("unwrap") EXCEPT !.stages = a.stages \o <<"unwrap">>]

----------------------------------------------------------------------------
(* The explored inputs *)

SeqsUpTo(S, n) == UNION {[1..k -> S] : k \in 0..n}

\* payload bytes drawn one by one: NUL, 'A', 0xFF
RawBytes == {0, 65, 255}

\* 32-bit payload words: run values and run counts
Vals32 == {-1, 0, 65, I32Max}

RunCounts == {-1, 0, 1, 2}

\* (value, count, value, ...) sequences, the last pair possibly cut short
WordSeqsUpTo(n) ==
    {w \in SeqsUpTo(Vals32 \cup RunCounts, n) :
        \A i \in DOMAIN w : IF i % 2 = 1 THEN w[i] \in Vals32 ELSE w[i] \in RunCounts}

WordSeqs == WordSeqsUpTo(MaxWords)

\* 16-bit payload words: both sentinels and small values
Vals16 == {I16Min, -1, 0, 1, I16Max}

HalfSeqs == SeqsUpTo(Vals16, MaxHalves)

\* the payload of the test it_decode_delta_run_length: the pairs (0, 1),
\* (1, 3), (2, 1), (0, 1), (1, 5), (-11, 1)
DeltaRunlengthData ==
    <<0, 0, 0, 0, 0, 0, 0, 1, 0, 0, 0, 1, 0, 0, 0, 3, 0, 0, 0, 2, 0, 0, 0, 1,
      0, 0, 0, 0, 0, 0, 0, 1, 0, 0, 0, 1, 0, 0, 0, 5, 255, 255, 255, 245, 0, 0, 0, 1>>

\* the payload of the test test_apply_strategy_for_type_6: the pair ('A', 3)
RunLengthCharData == <<0, 0, 0, 65, 0, 0, 0, 3>>

Payloads ==
    SeqsUpTo(RawBytes, MaxRaw)
    \cup {DeltaRunlengthData, RunLengthCharData}
    \cup {Interpret_u8_from_i32(w).val : w \in WordSeqs}
    \cup {Interpret_u8_from_i16(h).val : h \in HalfSeqs}

CodecIds == {-1, 0, 20} \cup (1..15)

Counts == {0, 2}

Parameters == {0, 2}

Headers ==
    {WriteI32BE(c) \o WriteI32BE(n) \o WriteI32BE(q) :
        c \in CodecIds, n \in Counts, q \in Parameters}

\* whole field buffers, and headers cut short
Buffers ==
    {h \o pl : h \in Headers, pl \in Payloads}
    \cup {SubSeq(h, 1, k) : h \in Headers, k \in 0..(HeaderLen - 1)}

----------------------------------------------------------------------------
(* The Decoder: one action for each method called on it *)

Call(op, target, arg, param, out) ==
    [op |-> op, target |-> target, arg |-> arg, param |-> param, out |-> out]

NoCall == Call("none", "none", <<>>, 0, NoResult)

Input(kind, val, param) == [kind |-> kind, val |-> val, param |-> param]

NoInput == Input("none", <<>>, 0)

Init ==
    /\ buf \in Buffers
    /\ pos = 0
    /\ overflow_checks \in BOOLEAN
    /\ input = NoInput
    /\ last = NoCall

CallHeader ==
    LET h == header(buf, pos) IN
    /\ pos' = h.pos
    /\ last' = Call("header", "none", <<>>, pos, h.r)
    /\ UNCHANGED <<buf, overflow_checks, input>>

CallField ==
    LET f == field(buf, pos) IN
    /\ pos' = f.pos
    /\ last' = Call("field", "none", <<>>, pos, f.r)
    /\ UNCHANGED <<buf, overflow_checks, input>>

CallApply ==
    LET a == apply(buf, pos, overflow_checks) IN
    /\ pos' = a.pos
    /\ last' = Call("apply", "none", <<>>, pos, a.r)
    /\ UNCHANGED <<buf, overflow_checks, input>>

\* DeltaRunlength::decode called on the bytes after the header
CallDeltaRunlength_decode ==
    LET bytes == SubSeq(buf, HeaderLen + 1, Len(buf)) IN
    /\ Len(buf) >= HeaderLen
    /\ last' = Call("DeltaRunlength_decode", "none", bytes, pos,
                    DeltaRunlength_decode(bytes, overflow_checks))
    /\ UNCHANGED <<buf, pos, overflow_checks, input>>

\* the array types as_decoder is asked for: one of integers, one of floats
AsDecoderTargets == {"VecInt32", "VecFloat32"}

\* as_decoder called on the whole buffer for an array type
CallAs_decoder ==
    \E t \in AsDecoderTargets :
        /\ last' = Call("as_decoder", t, buf, 0, as_decoder(buf, t, overflow_checks))
        /\ UNCHANGED <<buf, pos, overflow_checks, input>>

Next ==
    \/ CallHeader
    \/ CallField
    \/ CallApply
    \/ CallDeltaRunlength_decode
    \/ CallAs_decoder

Spec == Init /\ [][Next]_vars

----------------------------------------------------------------------------
(* Several callers decoding at once, each with a buffer and a Decoder of its
   own. Under this specification buf, pos, input and last hold one value for
   each caller: the caller's slice, the position of its decoder's cursor, the
   locals of its call of apply and the step that call has reached. *)

NumCallers == 2

Callers == 1..NumCallers

\* the header of a field of codec c, and eight bytes of payload
ParHeader(c) == WriteI32BE(c) \o WriteI32BE(2) \o WriteI32BE(2)

ParPayload == <<0, 0, 0, 65, 0, 0, 0, 2>>

\* fields of codecs 4 and 7 and of the unknown codec 20, a field of codec 4
\* whose payload is no whole number of words, and an empty field
ParBuffers ==
    {ParHeader(c) \o ParPayload : c \in {4, 7, 20}}
    \cup {ParHeader(4) \o <<65, 255>>, <<>>}

\* the locals of one call of apply; `overlapped` records that the call took a
\* step while another caller's call was under way
Locals(h, f, o) == [header |-> h, field |-> f, overlapped |-> o]

InFlight(c) == last[c].op \in {"header", "field"}

Overlaps(c) == input[c].overlapped \/ \E d \in Callers \ {c} : InFlight(d)

\* every decoder reading the slice of the first caller
reader_get_ref_first(c) == buf[1]

\* Decoder::new: the cursor of caller c's decoder wraps caller c's slice
reader_get_ref(c) == buf[c]

InitPar ==
    /\ buf \in [Callers -> ParBuffers]
    /\ pos = [c \in Callers |-> 0]
    /\ overflow_checks \in BOOLEAN
    /\ input = [c \in Callers |-> Locals(<<>>, <<>>, FALSE)]
    /\ last = [c \in Callers |-> NoCall]

\* let header = self.header()?; an Err returns from apply
StepHeader(c) ==
    LET h == header(reader_get_ref(c), pos[c]) IN
    /\ last[c].op = "none"
    /\ pos' = [pos EXCEPT ![c] = h.pos]
    /\ input' = [input EXCEPT ![c] = Locals(h.r.val, <<>>, Overlaps(c))]
    /\ last' = [last EXCEPT ![c] =
                    Call(IF h.r.kind = "Ok" THEN "header" ELSE "apply",
                         "none", <<>>, pos[c], h.r)]
    /\ UNCHANGED <<buf, overflow_checks>>

\* let field = self.field()?
StepField(c) ==
    LET f == field(reader_get_ref(c), pos[c]) IN
    /\ last[c].op = "header"
    /\ pos' = [pos EXCEPT ![c] = f.pos]
    /\ input' = [input EXCEPT ![c] = Locals(input[c].header, f.r.val, Overlaps(c))]
    /\ last' = [last EXCEPT ![c] = Call("field", "none", <<>>, pos[c], f.r)]
    /\ UNCHANGED <<buf, overflow_checks>>

\* match header.codec { .. } on the locals of the call
StepMatch(c) ==
    LET m == dispatch(input[c].header[1], input[c].header[3], input[c].field,
                      overflow_checks)
    IN  /\ last[c].op = "field"
        /\ input' = [input EXCEPT ![c].overlapped = Overlaps(c)]
        /\ last' = [last EXCEPT ![c] =
                        Call("apply", "none", <<>>, pos[c],
                             [m EXCEPT !.stages = <<"header", "field">> \o m.stages])]
        /\ UNCHANGED <<buf, pos, overflow_checks>>

NextPar == \E c \in Callers : StepHeader(c) \/ StepField(c) \/ StepMatch(c)

SpecPar == InitPar /\ [][NextPar]_vars

----------------------------------------------------------------------------
(* RecursiveIndexing::encode step by step: one step for each pass of the for
   loop over the input, of a while loop, and for each push. Under this
   specification pos is the index of the element the for loop has reached,
   last.target the place in the code, last.param the local num, last.arg the
   number of sentinels pushed for the element and last.out the remainder
   pushed for it; the pushed sentinels are counted, not stored. *)

LoopVals == {I32Min, -32769, -32768, -1, 0, 32767, 65534, I32Max}

LoopArrs == {<<v>> : v \in LoopVals} \cup {<<65534, -32769>>, <<>>}

Loop(place, num, pushed, out) ==
    Call("RecursiveIndexing_encode", place, <<pushed>>, num, out)

\* the while loops running on `num > max` and `num < min`
while_continues_strict(num) == IF num >= 0 THEN num > I16Max ELSE num < I16Min

\* the condition of the while loop of num's branch: num >= max, num <= min
while_continues(num) == IF num >= 0 THEN num >= I16Max ELSE num <= I16Min

InitLoop ==
    /\ buf = <<>>
    /\ pos = 1
    /\ overflow_checks \in BOOLEAN
    /\ input \in {Input("wide", a, 0) : a \in LoopArrs}
    /\ last = Loop("for", 0, 0, NoResult)

\* for num in bytes { let mut num = *num;
LoopEnter ==
    /\ last.target = "for"
    /\ pos <= Len(input.val)
    /\ last' = Loop("while", input.val[pos], 0, NoResult)
    /\ UNCHANGED <<buf, pos, overflow_checks, input>>

\* output.push(max); num -= max  or  output.push(min); num += min.abs()
LoopPush ==
    /\ last.target = "while"
    /\ while_continues(last.param)
    /\ last' = Loop("while",
                    IF last.param >= 0 THEN last.param - I16Max
                    ELSE last.param + Abs(I16Min),
                    last.arg[1] + 1, NoResult)
    /\ UNCHANGED <<buf, pos, overflow_checks, input>>

\* output.push(NumCast::from(num).unwrap()) after the while loop
LoopRemainder ==
    /\ last.target = "while"
    /\ ~while_continues(last.param)
    /\ last' = Loop("for", last.param, last.arg[1],
                    IF I16Min <= last.param /\ last.param <= I16Max
                    THEN Ok(<<last.param>>, "RecursiveIndexing_encode")
                    ELSE Panic("RecursiveIndexing_encode"))
    /\ pos' = pos + 1
    /\ UNCHANGED <<buf, overflow_checks, input>>

\* Ok(output) after the for loop
LoopReturn ==
    /\ last.target = "for"
    /\ pos > Len(input.val)
    /\ last' = [last EXCEPT !.target = "return"]
    /\ UNCHANGED <<buf, pos, overflow_checks, input>>

NextLoop == LoopEnter \/ LoopPush \/ LoopRemainder \/ LoopReturn

\* the call is not suspended for ever: a step that can be taken is taken
SpecLoop == InitLoop /\ [][NextLoop]_vars /\ WF_vars(NextLoop)

----------------------------------------------------------------------------
(* The free functions, called directly on inputs drawn from small sets *)

Fin(n, d) == [cls |-> "fin", n |-> n, d |-> d]

Inf == [cls |-> "inf", n |-> 0, d |-> 0]

\* 0.0, 0.5, -1.5, 182.03, -2147483647.0 and +infinity
Floats == {Fin(0, 1), Fin(1, 2), Fin(-3, 2), Fin(18203, 100), Fin(-I32Max, 1), Inf}

\* the array of the doc example of IntegerDeltaRecursive: 182.00, 182.00, 182.03
IntegerDeltaRecursiveData == <<Fin(182, 1), Fin(182, 1), Fin(18203, 100)>>

FloatArrs == SeqsUpTo(Floats, MaxFloats)

Factors == {-2, 0, 1, 100}

IntArrs == SeqsUpTo({-3, 0, 1, 7}, MaxArr)

RunInputs == WordSeqsUpTo(MaxArr)

\* arrays of 32-bit integers, both limits among them
I32Arrs == SeqsUpTo({I32Min, -1, 0, 1, I32Max}, MaxArr)

\* the input of the test it_encode_run_length_encoding
RunLengthData == <<1, 1, 1, 1, 2, 1, 1, 1, 1>>

\* 32-bit values around the 16-bit sentinels, their multiples, both limits
WideVals == {I32Min, -32769, -32768, -1, 0, 32767, 65534, I32Max}

WideArrs == SeqsUpTo(WideVals, MaxWide)

\* arrays of 8-bit integers, both limits among them
I8Arrs == SeqsUpTo({-128, -1, 0, 1, 127}, MaxHalves)

\* arrays of 16-bit items: both sentinels and small values
I16Arrs == SeqsUpTo(Vals16, MaxArr)

\* long arrays of 16-bit items, written <<s, n, t>>: n items equal to the
\* sentinel s, then the item t
I16Floods == {<<s, n, 1>> : s \in {I16Max, I16Min}, n \in {3, 65538}}

FloodArr(d) == (<<>> \o [i \in 1..d[2] |-> d[1]]) \o <<d[3]>>

\* the arrays a StrategyDataTypes variant can hold
VariantVals(t) ==
    CASE t = "VecFloat32" -> SeqsUpTo({Fin(0, 1), Fin(1, 2)}, MaxConv)
      [] t = "VecString" -> SeqsUpTo({<<65>>, <<68, 65>>}, MaxConv)
      [] OTHER -> SeqsUpTo({0, 97}, MaxConv)

TaggedVals ==
    UNION {{Tagged(Ok(v, "new"), t) : v \in VariantVals(t)} : t \in StrategyDataTypes}

PureInputs ==
    {Input("bytes", b, f) : b \in Payloads, f \in Factors}
    \cup {Input("runs", a, 0) : a \in RunInputs}
    \cup {Input("ints", a, f) : a \in IntArrs, f \in Factors}
    \cup {Input("i32s", a, 0) : a \in I32Arrs}
    \cup {Input("i32s", RunLengthData, 0)}
    \cup {Input("i8s", a, 0) : a \in I8Arrs}
    \cup {Input("i16s", a, 0) : a \in I16Arrs}
    \cup {Input("flood", d, 0) : d \in I16Floods}
    \cup {Input("wide", a, 0) : a \in WideArrs}
    \cup {Input("floats", a, f) : a \in FloatArrs, f \in Factors}
    \cup {Input("floats", IntegerDeltaRecursiveData, 100)}
    \cup {Input("tagged", v, 0) : v \in TaggedVals}

InitPure ==
    /\ buf = <<>>
    /\ pos = 0
    /\ overflow_checks \in BOOLEAN
    /\ input \in PureInputs
    /\ last = NoCall

\* the call `op` on an input of kind `kind` returns `out`
Returns(kind, op, target, out) ==
    /\ input.kind = kind
    /\ last' = Call(op, target, input.val, input.param, out)
    /\ UNCHANGED <<buf, pos, overflow_checks, input>>

\* the call `op` on the array the preceding call `from` returned
Feeds(from, op, out) ==
    /\ last.op = from
    /\ last.target = "none"
    /\ last.out.kind = "Ok"
    /\ last' = Call(op, from, last.out.val, last.param, out)
    /\ UNCHANGED <<buf, pos, overflow_checks, input>>

CallInterpret_f32 == Returns("bytes", "Interpret", "f32", Interpret_f32(input.val))

CallInterpret_i32 == Returns("bytes", "Interpret", "i32", Interpret_i32(input.val))

CallInterpret_i16 == Returns("bytes", "Interpret", "i16", Interpret_i16(input.val))

CallInterpret_i8 == Returns("bytes", "Interpret", "i8", Interpret_i8(input.val))

CallInterpret_char == Returns("bytes", "Interpret", "char", Interpret_char(input.val))

CallInterpret_String ==
    Returns("bytes", "Interpret", "String", Interpret_String(input.val))

CallFrom_Vec ==
    \E t \in StrategyDataTypes :
        Returns("tagged", "From_Vec", t, From_Vec(t, input.val))

CallFrom_Option ==
    \E t \in OptionTargets :
        Returns("tagged", "From_Option", t, From_Option(t, input.val))

CallRunLength_decode ==
    \/ Returns("runs", "RunLength_decode", "none", RunLength_decode(input.val))
    \/ Feeds("RunLength_encode", "RunLength_decode", RunLength_decode(last.out.val))

CallRunLength_encode ==
    Returns("i32s", "RunLength_encode", "none", RunLength_encode(input.val))

CallDelta_encode ==
    Returns("i32s", "Delta_encode", "none", Delta_encode(input.val, overflow_checks))

CallDelta_decode ==
    \/ Returns("i32s", "Delta_decode", "none",
               Delta_decode(input.val, overflow_checks))
    \/ Feeds("Delta_encode", "Delta_decode", Delta_decode(last.out.val, overflow_checks))

CallRecursiveIndexing_decode ==
    \/ Returns("i8s", "RecursiveIndexing_decode", "none",
               RecursiveIndexing_decode(input.val, overflow_checks))
    \/ Returns("i16s", "RecursiveIndexing_decode", "none",
               RecursiveIndexing_decode(input.val, overflow_checks))
    \/ Returns("flood", "RecursiveIndexing_decode", "none",
               RecursiveIndexing_decode(FloodArr(input.val), overflow_checks))
    \/ Feeds("RecursiveIndexing_encode", "RecursiveIndexing_decode",
             RecursiveIndexing_decode(last.out.val, overflow_checks))

CallRecursiveIndexing_encode ==
    Returns("wide", "RecursiveIndexing_encode", "none",
            RecursiveIndexing_encode(input.val))

CallIntegerEncoding_decode ==
    \/ Returns("ints", "IntegerEncoding_decode", "none",
               IntegerEncoding_decode(input.val, input.param))
    \/ Feeds("IntegerEncoding_encode", "IntegerEncoding_decode",
             IntegerEncoding_decode(last.out.val, last.param))

CallIntegerEncoding_encode ==
    Returns("floats", "IntegerEncoding_encode", "none",
            IntegerEncoding_encode(input.val, input.param))

CallIntegerRunLength_decode ==
    Returns("bytes", "IntegerRunLength_decode", "none",
            IntegerRunLength_decode(input.val, input.param))

CallIntegerRunLength_encode ==
    Returns("floats", "IntegerRunLength_encode", "none",
            IntegerRunLength_encode(input.val, input.param))

CallIntegerDeltaRecursive_decode ==
    \/ Returns("bytes", "IntegerDeltaRecursive_decode", "none",
               IntegerDeltaRecursive_decode(input.val, input.param, overflow_checks))
    \/ Feeds("IntegerDeltaRecursive_encode", "IntegerDeltaRecursive_decode",
             IntegerDeltaRecursive_decode(last.out.val, last.param, overflow_checks))

CallIntegerDeltaRecursive_encode ==
    Returns("floats", "IntegerDeltaRecursive_encode", "none",
            IntegerDeltaRecursive_encode(input.val, input.param, overflow_checks))

NextPure ==
    \/ CallInterpret_f32
    \/ CallInterpret_i32
    \/ CallInterpret_i16
    \/ CallInterpret_i8
    \/ CallInterpret_char
    \/ CallInterpret_String
    \/ CallFrom_Vec
    \/ CallFrom_Option
    \/ CallRunLength_decode
    \/ CallRunLength_encode
    \/ CallDelta_encode
    \/ CallDelta_decode
    \/ CallRecursiveIndexing_decode
    \/ CallRecursiveIndexing_encode
    \/ CallIntegerEncoding_decode
    \/ CallIntegerEncoding_encode
    \/ CallIntegerRunLength_decode
    \/ CallIntegerRunLength_encode
    \/ CallIntegerDeltaRecursive_decode
    \/ CallIntegerDeltaRecursive_encode

SpecPure == InitPure /\ [][NextPure]_vars

----------------------------------------------------------------------------
(* Properties *)

\* the EncodeError variants: a failure handed back to the caller
ErrorKinds == {"Header", "Codec", "Encoding", "Io"}

Returned(r) == r.kind = "Ok" \/ r.kind \in ErrorKinds

WholeBuffer == Len(buf) >= HeaderLen

DeclaredCodec == ReadI32BE(buf, 0)

DeclaredCount == ReadI32BE(buf, 4)

DeclaredParameter == ReadI32BE(buf, 8)

Payload == SubSeq(buf, HeaderLen + 1, Len(buf))

Applied == last.op = "apply"

Decoded == Applied /\ last.out.kind = "Ok"

\* C1: Decoder::apply and every transform it calls finish by returning a
\* typed array or a typed error, whatever the buffer; no stage panics.
C1_NoStageAborts == Applied => Returned(last.out)

RECURSIVE SumRunCounts(_, _)
\* the sum of the counts of the (value, count) pairs from pair k on
SumRunCounts(pl, k) ==
    IF 8 * k > Len(pl) THEN 0
    ELSE ReadI32BE(pl, 8 * (k - 1) + 4) + SumRunCounts(pl, k + 1)

\* the number of elements a payload encodes under a codec
EncodedElements(codec, pl) ==
    CASE codec \in {1, 4, 5} -> Len(pl) \div 4
      [] codec \in {3, 11} -> Len(pl) \div 2
      [] codec \in {2, 13, 15} -> Len(pl)
      [] codec \in {6, 7, 8, 9} -> SumRunCounts(pl, 1)
      [] codec \in {10, 12, 14} ->
            Cardinality({i \in 1..(Len(pl) \div 2) :
                            ReadI16BE(pl, 2 * (i - 1)) \notin {I16Min, I16Max}})

\* C2 as stated: a field decoded with a codec id other than 5 has as many
\* elements as the second header field declares.
C2_LengthIsDeclaredCount ==
    (Decoded /\ DeclaredCodec # 5) => Len(last.out.val) = DeclaredCount

\* C2 amended: a decoded field has as many elements as its payload encodes
\* under its codec; the declared count is not compared with it.
C2_LengthIsEncodedElements ==
    Decoded => Len(last.out.val) = EncodedElements(DeclaredCodec, Payload)

C2_Witness ==
    /\ Decoded
    /\ DeclaredCodec = 7
    /\ DeclaredCount = 0
    /\ Len(last.out.val) = 2

\* C3: apply on a buffer of at least 12 bytes whose codec id is not one of
\* 1..15 returns the Codec error carrying that id, after the header and the
\* raw field bytes were read and no interpreter or transform stage ran.
C3_UnknownCodec ==
    (Applied /\ WholeBuffer /\ DeclaredCodec \notin 1..15) =>
        /\ last.out.kind = "Codec"
        /\ last.out.msg = DeclaredCodec
        /\ last.out.val = <<>>
        /\ last.out.stages = <<"header", "field", "unknown_codec">>

C3_Witness ==
    /\ Applied
    /\ WholeBuffer
    /\ DeclaredCodec = 20
    /\ Len(Payload) > 0
    /\ last.out.kind = "Codec"

\* C4: on a buffer shorter than 12 bytes header() fails with the Header
\* error naming the buffer's length and leaves the cursor at 0 with no field
\* read, and apply returns that error with no stage after the header run.
C4_HeaderTooShort ==
    (~WholeBuffer /\ last.op \in {"header", "apply"}) =>
        /\ last.out.kind = "Header"
        /\ last.out.msg = Len(buf)
        /\ last.out.val = <<>>
        /\ last.out.stages = <<"header">>
        /\ pos = 0

C4_Witness ==
    /\ Applied
    /\ Len(buf) = HeaderLen - 1
    /\ last.param = HeaderLen
    /\ last.out.kind = "Header"

\* C5: on a buffer of at least 12 bytes, wherever earlier calls left the
\* cursor, header() returns the three big-endian signed 32-bit integers of
\* bytes 0..3, 4..7 and 8..11 and field() returns the bytes from offset 12
\* to the end.
C5_HeaderAndFieldFromStart ==
    WholeBuffer =>
        /\ last.op = "header" =>
              /\ last.out.kind = "Ok"
              /\ Len(last.out.val) = 3
              /\ \A i \in 1..3 :
                    /\ last.out.val[i] \in I32Min..I32Max
                    /\ WriteI32BE(last.out.val[i]) = SubSeq(buf, 4 * i - 3, 4 * i)
        /\ last.op = "field" =>
              /\ last.out.kind = "Ok"
              /\ last.out.val = SubSeq(buf, HeaderLen + 1, Len(buf))

C5_Witness ==
    /\ last.op = "header"
    /\ Len(buf) > HeaderLen
    /\ last.param = Len(buf)
    /\ last.out.kind = "Ok"
    /\ last.out.val[1] < 0

\* the variant the claim gives for each codec id
VariantOf(codec) ==
    CASE codec \in {1, 9, 10, 11, 12, 13} -> "VecFloat32"
      [] codec = 2 -> "VecInt8"
      [] codec = 3 -> "VecInt16"
      [] codec \in {4, 7, 8, 14, 15} -> "VecInt32"
      [] codec = 5 -> "VecString"
      [] codec = 6 -> "VecChar"
      [] OTHER -> "none"

\* C6: a successful apply returns the one variant fixed by the codec id:
\* f32[] for 1, 9..13; i8[] for 2; i16[] for 3; i32[] for 4, 7, 8, 14, 15;
\* String[] for 5; char[] for 6.
C6_VariantByCodec ==
    Decoded =>
        /\ DeclaredCodec \in 1..15
        /\ last.out.tag = VariantOf(DeclaredCodec)

C6_Witness ==
    /\ Decoded
    /\ DeclaredCodec = 14
    /\ last.out.tag = "VecInt32"
    /\ last.out.val = <<32768>>

Converted == last.op \in {"From_Vec", "From_Option"}

\* C7: converting a tagged result to a concrete array type returns an error,
\* and does not panic, when the tag differs from the requested type, and
\* yields the contained array unchanged when the tag matches.
C7_WrongTagIsAnError ==
    Converted =>
        IF last.arg.tag = last.target
        THEN last.out.kind = "Ok" /\ last.out.val = last.arg.val
        ELSE last.out.kind \in ErrorKinds

Misaligned(ty, bytes) ==
    \/ ty \in {"f32", "i32", "char", "String"} /\ Len(bytes) % 4 # 0
    \/ ty = "i16" /\ Len(bytes) % 2 # 0

\* C8: the byte interpreter reports a length that is not a multiple of the
\* element width, an invalid UTF-8 group and a non-scalar char group as a
\* returned error; it never panics.
C8_MalformedInputIsAnError ==
    last.op = "Interpret" =>
        /\ Returned(last.out)
        /\ Misaligned(last.target, last.arg) => last.out.kind \in ErrorKinds

IsOdd(n) == n % 2 = 1

\* C9: RunLength.decode returns the Encoding ("Run Length error") failure and
\* no output on every input of odd length, and on no input of even length.
C9_OddLengthRejected ==
    last.op = "RunLength_decode" =>
        IF IsOdd(Len(last.arg))
        THEN last.out.kind = "Encoding" /\ last.out.val = <<>>
        ELSE last.out.kind # "Encoding"

C9_Witness ==
    /\ last.op = "RunLength_decode"
    /\ Len(last.arg) = 3
    /\ last.out.kind = "Encoding"

C9_WitnessEven ==
    /\ last.op = "RunLength_decode"
    /\ Len(last.arg) = 2
    /\ last.out.kind = "Ok"
    /\ Len(last.out.val) = 2

UsesFactor ==
    last.op \in {"IntegerEncoding_decode", "IntegerEncoding_encode",
                 "IntegerRunLength_decode", "IntegerRunLength_encode",
                 "IntegerDeltaRecursive_decode", "IntegerDeltaRecursive_encode"}

\* C10: IntegerEncoding.decode and .encode, called directly or through a
\* composite codec with factor 0, return an error and no result array.
C10_ZeroFactorIsAnError ==
    (UsesFactor /\ last.param = 0) => last.out.kind \in ErrorKinds

\* C11: Delta.encode returns the Encoding (insufficient length) failure and
\* no output on an input of length 0 or 1, and succeeds on every input of
\* length 2 or more.
C11_EncodeNeedsTwoElements ==
    last.op = "Delta_encode" =>
        IF Len(last.arg) <= 1
        THEN last.out.kind = "Encoding" /\ last.out.val = <<>>
        ELSE last.out.kind = "Ok"

RECURSIVE SentinelScan(_, _, _, _, _)
\* recursive index decoding of items[i..] with the sentinels max and min:
\* a sentinel is added to the accumulator acc, any other item is added and
\* the accumulator emitted and reset
SentinelScan(items, i, acc, max, min) ==
    IF i > Len(items) THEN <<>>
    ELSE IF items[i] = max \/ items[i] = min
         THEN SentinelScan(items, i + 1, acc + items[i], max, min)
         ELSE <<acc + items[i]>> \o SentinelScan(items, i + 1, 0, max, min)

\* C12: RecursiveIndexing.decode on 8-bit input takes 127 and -128 as the
\* sentinels: such an item is accumulated and not emitted, every other item
\* is added, the accumulator emitted and reset ([127, 1] gives [128]).
C12_ByteSentinels ==
    (last.op = "RecursiveIndexing_decode" /\ input.kind = "i8s") =>
        /\ last.out.kind = "Ok"
        /\ last.out.val = SentinelScan(last.arg, 1, 0, 127, -128)

\* C13: for codec 5 the chunk width is the header's parameter w: the payload
\* gives one string for each w consecutive bytes, whatever w is.
C13_ChunkWidthIsParameter ==
    (Decoded /\ DeclaredCodec = 5 /\ DeclaredParameter > 0
             /\ Len(Payload) % DeclaredParameter = 0) =>
        /\ Len(last.out.val) = Len(Payload) \div DeclaredParameter
        /\ \A i \in DOMAIN last.out.val : Len(last.out.val[i]) <= DeclaredParameter

RECURSIVE StripTrailingNul(_)
\* a byte string without the NUL bytes at its end
StripTrailingNul(s) ==
    IF s # <<>> /\ s[Len(s)] = 0 THEN StripTrailingNul(SubSeq(s, 1, Len(s) - 1))
    ELSE s

\* C14: the String interpretation yields one string for each 4-byte group,
\* the group's bytes without its trailing NUL bytes; a NUL byte before a
\* non-NUL byte of the group is kept.
C14_OnlyTrailingNulStripped ==
    (last.op = "Interpret" /\ last.target = "String" /\ last.out.kind = "Ok") =>
        /\ Len(last.out.val) * 4 = Len(last.arg)
        /\ \A i \in DOMAIN last.out.val :
              last.out.val[i] = StripTrailingNul(SubSeq(last.arg, 4 * i - 3, 4 * i))

\* the four bytes of a scalar value, least significant first
LittleEndianBytes(c) ==
    <<c % 256, (c \div 256) % 256, (c \div 65536) % 256, 0>>

\* C15: the char interpretation reads each 4-byte group as a little-endian
\* unsigned 32-bit scalar value, first byte least significant, and gives one
\* char for each group in order.
C15_CharsAreLittleEndian ==
    (last.op = "Interpret" /\ last.target = "char" /\ last.out.kind = "Ok") =>
        /\ Len(last.out.val) * 4 = Len(last.arg)
        /\ \A i \in DOMAIN last.out.val :
              /\ IsScalar(last.out.val[i])
              /\ LittleEndianBytes(last.out.val[i]) = SubSeq(last.arg, 4 * i - 3, 4 * i)

C15_Witness ==
    /\ last.op = "Interpret"
    /\ last.target = "char"
    /\ last.arg = <<255, 255, 0, 0>>
    /\ last.out.kind = "Ok"
    /\ last.out.val = <<65535>>

\* the call `op` was made on what the call `from` returned for the input
RoundTrip(from, op) == last.op = op /\ last.target = from

\* C16: for every integer array a, the empty one included, RunLength.encode
\* succeeds and RunLength.decode of its output is a.
C16_RunLengthRoundTrip ==
    /\ last.op = "RunLength_encode" => last.out.kind = "Ok"
    /\ RoundTrip("RunLength_encode", "RunLength_decode") =>
            last.out.kind = "Ok" /\ last.out.val = input.val

C16_Witness ==
    /\ RoundTrip("RunLength_encode", "RunLength_decode")
    /\ input.val = <<-1, -1, I32Max>>
    /\ last.arg = <<-1, 2, I32Max, 1>>
    /\ last.out.val = input.val

C16_WitnessEmpty ==
    /\ RoundTrip("RunLength_encode", "RunLength_decode")
    /\ input.val = <<>>
    /\ last.out.kind = "Ok"

\* C17: for every 32-bit integer array a of at least 2 elements, also one
\* whose successive differences do not fit in 32 bits, Delta.encode succeeds
\* and Delta.decode of its output is a.
C17_DeltaRoundTrip ==
    /\ (last.op = "Delta_encode" /\ Len(last.arg) >= 2) => last.out.kind = "Ok"
    /\ RoundTrip("Delta_encode", "Delta_decode") =>
            last.out.kind = "Ok" /\ last.out.val = input.val

\* C18: for every array a of 32-bit signed integers, with 32767, -32768,
\* their multiples and both 32-bit limits among its values,
\* RecursiveIndexing.encode succeeds and RecursiveIndexing.decode of its
\* output is exactly a.
C18_RecursiveIndexingRoundTrip ==
    /\ last.op = "RecursiveIndexing_encode" => last.out.kind = "Ok"
    /\ RoundTrip("RecursiveIndexing_encode", "RecursiveIndexing_decode") =>
            last.out.kind = "Ok" /\ last.out.val = input.val

C18_Witness ==
    /\ RoundTrip("RecursiveIndexing_encode", "RecursiveIndexing_decode")
    /\ input.val = <<65534, -32768>>
    /\ last.arg = <<32767, 32767, 0, -32768, 0>>
    /\ last.out.val = input.val

\* the payload read as big-endian 32-bit integers
BigEndianWords(pl) == [k \in 1..(Len(pl) \div 4) |-> ReadI32BE(pl, 4 * (k - 1))]

RECURSIVE ExpandRuns(_, _)
\* the (value, count) pairs from pair k on, each value written count times
ExpandRuns(w, k) ==
    IF 2 * k > Len(w) THEN <<>>
    ELSE [i \in 1..w[2 * k] |-> w[2 * k - 1]] \o ExpandRuns(w, k + 1)

RECURSIVE PrefixSums(_, _, _)
\* the running sums of a[i..] after the sum `before`, in 32-bit arithmetic
PrefixSums(a, i, before) ==
    IF i > Len(a) THEN <<>>
    ELSE <<WrappingAdd(before, a[i])>>
         \o PrefixSums(a, i + 1, WrappingAdd(before, a[i]))

\* a suffix of the stages a result went through
EndsWith(stages, tail) ==
    /\ Len(stages) >= Len(tail)
    /\ SubSeq(stages, Len(stages) - Len(tail) + 1, Len(stages)) = tail

\* C19: what DeltaRunlength.decode, and apply on a codec 8 field, return for
\* a payload is the prefix sums of the run-length expansion of the payload
\* read as big-endian i32 values: expansion first, prefix sum second.
C19_ExpandThenSum ==
    (\/ last.op = "DeltaRunlength_decode" /\ last.out.kind = "Ok"
     \/ Decoded /\ DeclaredCodec = 8) =>
        /\ last.out.val = PrefixSums(ExpandRuns(BigEndianWords(Payload), 1), 1, 0)
        /\ EndsWith(last.out.stages, <<"bytes_to_i32", "RunLength_decode", "Delta_decode">>)

C19_Witness ==
    /\ Decoded
    /\ DeclaredCodec = 8
    /\ Payload = DeltaRunlengthData
    /\ last.out.val = <<0, 1, 2, 3, 5, 5, 6, 7, 8, 9, 10, -1>>

C19_WitnessDirect ==
    /\ last.op = "DeltaRunlength_decode"
    /\ last.arg = DeltaRunlengthData
    /\ last.out.val = <<0, 1, 2, 3, 5, 5, 6, 7, 8, 9, 10, -1>>

\* x * f is a 32-bit integer: |x * f| <= 2^31 - 1
Fits32(x, f) ==
    /\ x.cls = "fin"
    /\ IF x.n % x.d = 0
       THEN Abs(x.n) \div x.d <= I32Max \div Abs(f)
       ELSE Abs(x.n) \div x.d < I32Max \div Abs(f)

\* |y - x| is less than one quantum 1 / |f|
WithinTolerance(y, x, f) ==
    /\ y.cls = "fin"
    /\ Abs(y.n * x.d - x.n * y.d) * Abs(f) < x.d * y.d

\* C20: for a float array a of at least 2 elements and a factor f # 0 with
\* every a[i] * f a 32-bit integer, IntegerDeltaRecursive.encode succeeds
\* through IntegerEncoding.encode, Delta.encode, RecursiveIndexing.encode and
\* the big-endian i16 serialization in that order, and decode of its output
\* runs the inverses in the reverse order and returns as many elements as a,
\* each within one quantum of the original.
C20_RoundTripWithinTolerance ==
    /\ (/\ last.op = "IntegerDeltaRecursive_encode"
        /\ Len(last.arg) >= 2
        /\ last.param # 0
        /\ \A i \in DOMAIN last.arg : Fits32(last.arg[i], last.param)) =>
            /\ last.out.kind = "Ok"
            /\ last.out.stages = <<"IntegerEncoding_encode", "Delta_encode",
                                   "RecursiveIndexing_encode", "i16_to_bytes">>
    /\ (/\ RoundTrip("IntegerDeltaRecursive_encode", "IntegerDeltaRecursive_decode")
        /\ last.param # 0) =>
            /\ last.out.kind = "Ok"
            /\ last.out.stages = <<"bytes_to_i16", "RecursiveIndexing_decode",
                                   "Delta_decode", "IntegerEncoding_decode">>
            /\ Len(last.out.val) = Len(input.val)
            /\ \A i \in DOMAIN input.val :
                  WithinTolerance(last.out.val[i], input.val[i], last.param)

\* C21: for every float array a and integer factor f # 0,
\* IntegerEncoding.encode succeeds and IntegerEncoding.decode of its output
\* has the length of a, each element less than 1 / |f| away from that of a.
C21_QuantizeRoundTrip ==
    /\ (last.op = "IntegerEncoding_encode" /\ last.param # 0) =>
            last.out.kind = "Ok" /\ Len(last.out.val) = Len(last.arg)
    /\ (RoundTrip("IntegerEncoding_encode", "IntegerEncoding_decode")
            /\ last.param # 0) =>
            /\ last.out.kind = "Ok"
            /\ Len(last.out.val) = Len(input.val)
            /\ \A i \in DOMAIN input.val :
                  WithinTolerance(last.out.val[i], input.val[i], last.param)

\* q is x * f with the fractional part discarded: q has the sign of the
\* product or is 0, and |q| <= |x * f| < |q| + 1
TruncatedProduct(q, x, f) ==
    /\ q * Sign(x.n) * Sign(f) >= 0
    /\ Abs(q) * x.d <= Abs(x.n) * Abs(f)
    /\ Abs(x.n) * Abs(f) - Abs(q) * x.d < x.d

\* C22: IntegerEncoding.encode maps each x to x * factor truncated toward
\* zero, neither rounded to nearest nor floored, for either sign of x and of
\* the factor.
C22_TruncatesTowardZero ==
    (last.op = "IntegerEncoding_encode" /\ last.out.kind = "Ok") =>
        /\ Len(last.out.val) = Len(last.arg)
        /\ \A i \in DOMAIN last.arg :
              TruncatedProduct(last.out.val[i], last.arg[i], last.param)

C22_Witness ==
    /\ last.op = "IntegerEncoding_encode"
    /\ last.arg = <<Fin(-3, 2), Fin(18203, 100)>>
    /\ last.param = -2
    /\ last.out.val = <<3, -364>>

C22_WitnessNegative ==
    /\ last.op = "IntegerEncoding_encode"
    /\ last.arg = <<Fin(-3, 2), Fin(18203, 100)>>
    /\ last.param = 1
    /\ last.out.val = <<-1, 182>>

\* the decode entry points: the dispatcher, the deserializing helper built on
\* it and a composite codec called on its own
DecodeEntry == last.op \in {"apply", "as_decoder", "DeltaRunlength_decode"}

\* C23: whenever a stage of a decoding pipeline fails, the caller of the decode
\* entry point is handed an EncodeError, and it is the error of the stage that
\* failed: a failure of Decoder::apply comes out of as_decoder unchanged.
C23_StageErrorReachesCaller ==
    /\ (DecodeEntry /\ last.out.kind # "Ok") => last.out.kind \in ErrorKinds
    /\ last.op = "as_decoder" =>
            LET a == apply(buf, 0, overflow_checks).r IN
            a.kind # "Ok" => last.out = a

\* what caller c gets when its decode runs alone
Sequential(c) == apply(buf[c], 0, overflow_checks).r

\* the state of caller c's decode: its cursor, its locals, its progress
DecodeOf(c) == <<pos[c], input[c], last[c]>>

\* C24: when several callers decode their own buffers with their own decoders
\* at the same time, under every interleaving each caller gets the result of
\* decoding its buffer alone, a step of one decode leaves the state of every
\* other decode as it was, and no step writes a buffer.
C24_InterleavedEqualsSequential ==
    [][/\ \A c \in Callers :
              last'[c].op = "apply" => last'[c].out = Sequential(c)'
       /\ \A c \in Callers :
              DecodeOf(c)' # DecodeOf(c) =>
                  \A d \in Callers \ {c} : DecodeOf(d)' = DecodeOf(d)
       /\ buf' = buf]_vars

\* two decodes of different buffers, each of which took steps while the other
\* was under way, have both returned, with different arrays
C24_Witness ==
    /\ \A c \in Callers : last[c].op = "apply" /\ input[c].overlapped
    /\ buf[1] # buf[2]
    /\ last[1].out.kind = "Ok"
    /\ last[2].out.kind = "Ok"
    /\ last[1].out.val # last[2].out.val

\* C25: Decoder::apply is a function of the bytes of the buffer alone: no call
\* changes the buffer, every call of apply returns what a new decoder over the
\* same bytes returns, wherever the earlier calls left the cursor, and a call
\* of apply that follows another on the same decoder returns the same result.
C25_ApplyIsPure ==
    [][/\ buf' = buf
       /\ last'.op = "apply" => last'.out = apply(buf, 0, overflow_checks).r
       /\ (last.op = "apply" /\ last'.op = "apply") => last'.out = last.out]_vars

\* apply has returned an array on a decoder whose cursor an earlier call had
\* left at the end of the buffer
C25_Witness ==
    /\ Decoded
    /\ last.param = Len(buf)
    /\ last.param > HeaderLen
    /\ Len(last.out.val) > 0

\* the number of items of a that are neither sentinel of the 16-bit width
NonSentinels(a) == Cardinality({i \in DOMAIN a : a[i] # I16Max /\ a[i] # I16Min})

\* C26: RecursiveIndexing.decode over 16-bit items returns an array: an item
\* equal to 32767 or -32768 is added to the accumulator and nothing is emitted,
\* any other item is added and the accumulator emitted and reset, so the output
\* has one element for each non-sentinel item, in order, and sentinels after
\* the last such item add nothing to it.
C26_SentinelsAccumulate ==
    /\ (last.op = "RecursiveIndexing_decode" /\ input.kind = "i16s") =>
            /\ last.out.kind = "Ok"
            /\ last.out.val = SentinelScan(last.arg, 1, 0, I16Max, I16Min)
            /\ Len(last.out.val) = NonSentinels(last.arg)
    /\ (last.op = "RecursiveIndexing_decode" /\ input.kind = "flood") =>
            /\ last.out.kind = "Ok"
            /\ Len(last.out.val) = 1

\* the element of the input whose remainder has just been pushed
Emitted == last.target \in {"for", "return"} /\ pos > 1

\* at most ceil(|v| / |s|) sentinels s, then one remainder strictly between
\* the limits of the 16-bit width, together making up v
SentinelsThenRemainder(v, pushed, out) ==
    /\ out.kind = "Ok"
    /\ I16Min < out.val[1] /\ out.val[1] < I16Max
    /\ pushed <= (IF v > 0 THEN (v - 1) \div I16Max + 1
                  ELSE IF v < 0 THEN (-(v + 1)) \div Abs(I16Min) + 1
                  ELSE 0)
    /\ v = pushed * (IF v >= 0 THEN I16Max ELSE I16Min) + out.val[1]

\* C27: RecursiveIndexing.encode terminates on every 32-bit value, the least
\* and the greatest included, and for each input value v it emits at most
\* ceil(|v| / sentinel magnitude) sentinels followed by exactly one remainder
\* strictly between the least and greatest value of the 16-bit width.
C27_EncodeTerminates ==
    /\ [](Emitted =>
             SentinelsThenRemainder(input.val[pos - 1], last.arg[1], last.out))
    /\ <>(last.target = "return")

\* encode has returned from [65534, -32769]: after two sentinels 32767 and the
\* remainder 0, one sentinel -32768 and the remainder -1
C27_Witness ==
    /\ last.target = "return"
    /\ input.val = <<65534, -32769>>
    /\ last.arg = <<1>>
    /\ last.out.val = <<-1>>

RECURSIVE SumCounts(_, _)
\* the sum of the counts of the (value, count) pairs of w from pair k on
SumCounts(w, k) == IF 2 * k > Len(w) THEN 0 ELSE w[2 * k] + SumCounts(w, k + 1)

\* w holds one (value, count) pair for each maximal run of a, in order
MaximalRuns(w, a) ==
    /\ Len(w) % 2 = 0
    /\ \A k \in 1..(Len(w) \div 2) : w[2 * k] >= 1
    /\ SumCounts(w, 1) = Len(a)
    /\ \A k \in 1..(Len(w) \div 2 - 1) : w[2 * k - 1] # w[2 * k + 1]
    /\ ExpandRuns(w, 1) = a

\* C28: RunLength.encode emits one (value, count) pair for each maximal run of
\* adjacent equal values, in order: every count is at least 1, the counts add
\* up to the length of the input, consecutive pairs never carry the same
\* value, and equal values apart from each other stay in separate pairs.
C28_OnePairPerMaximalRun ==
    (last.op = "RunLength_encode" /\ input.kind = "i32s") =>
        /\ last.out.kind = "Ok"
        /\ MaximalRuns(last.out.val, last.arg)

\* the arrays of the test: [1,1,1,1,2,1,1,1,1] gives [1,4,2,1,1,4]
C28_Witness ==
    /\ last.op = "RunLength_encode"
    /\ last.arg = RunLengthData
    /\ last.out.val = <<1, 4, 2, 1, 1, 4>>

\* out is the array of running sums of a, none of them leaving 32 bits
RunningSums(out, a) ==
    /\ Len(out) = Len(a)
    /\ out[1] = a[1]
    /\ \A i \in 2..Len(a) :
          /\ ~AddOverflows(out[i - 1], a[i])
          /\ out[i] = out[i - 1] + a[i]

\* C29: Delta.decode on every array of at least one element returns an array
\* of the same length whose first element is the first input element and
\* whose element i is its element i - 1 plus input element i; an array of one
\* element comes back as it is.
C29_RunningSums ==
    (last.op = "Delta_decode" /\ last.target = "none" /\ Len(last.arg) >= 1) =>
        /\ last.out.kind = "Ok"
        /\ RunningSums(last.out.val, last.arg)

\* the payload is whole (value, count) pairs of 32-bit words with counts that
\* are no less than 0 and values that are Unicode scalar values where the
\* count is more than 0
CharRuns(pl) ==
    /\ Len(pl) % 8 = 0
    /\ \A k \in 1..(Len(pl) \div 8) :
          /\ ReadI32BE(pl, 8 * (k - 1) + 4) >= 0
          /\ ReadI32BE(pl, 8 * (k - 1) + 4) > 0 => IsScalar(ReadI32BE(pl, 8 * (k - 1)))

\* C30: under codec 6 the payload is read as big-endian 32-bit (value, count)
\* pairs and expanded, and each expanded value v becomes the char of scalar
\* value v: a payload of such pairs decodes, and the decoded field is the
\* char array of the expansion, as long as the sum of the counts.
C30_CharRunLength ==
    /\ (Applied /\ WholeBuffer /\ DeclaredCodec = 6 /\ CharRuns(Payload)) => Decoded
    /\ (Decoded /\ DeclaredCodec = 6) =>
            /\ last.out.tag = "VecChar"
            /\ last.out.val = ExpandRuns(BigEndianWords(Payload), 1)
            /\ Len(last.out.val) = SumCounts(BigEndianWords(Payload), 1)

\* the field of the test: the pair ('A', 3) decodes to ['A', 'A', 'A']
C30_Witness ==
    /\ Decoded
    /\ DeclaredCodec = 6
    /\ Payload = RunLengthCharData
    /\ last.out.val = <<65, 65, 65>>

====
